---- MODULE Spec2Model ----
(***************************************************************************)
(* Record store of the reseller bookkeeping backend (Product and Sale      *)
(* collections) together with the Express route handlers and the Mongoose  *)
(* lifecycle hooks that write to it.                                       *)
(*                                                                         *)
(* Mongoose semantics relied on throughout:                                *)
(*   - pre('save') / post('save') hooks run for document.save() only;      *)
(*     they do not run for findOneAndUpdate, findByIdAndUpdate or          *)
(*     insertMany;                                                         *)
(*   - post('findOneAndUpdate') runs after every Sale.findOneAndUpdate     *)
(*     and receives the document the query returned ({new: true}: the      *)
(*     updated document);                                                  *)
(*   - findByIdAndUpdate with $inc is one atomic document update and runs  *)
(*     no validators (runValidators is not set in the hooks).              *)
(***************************************************************************)
EXTENDS Integers, Sequences, FiniteSets, TLC

(* ---------------------------- bounds ----------------------------------- *)
MaxProducts == 1
MaxSales == 1
MaxQty == 2
MaxRecords == 2

\* days in a month of the model calendar, last day of the explored clock
DaysPerMonth == 10
MaxTime == 130

\* range of the stock counters that is explored
CounterCap == MaxQty + 1

\* refreshes of the mobile dashboard that can be in flight together
MaxFetches == 2
FetchIds == 1..MaxFetches

(* ------------------------ program constants ---------------------------- *)
FreeLimit == 100
SubscriptionAlertAt == 80
AlertDataLimit == 10
DefaultRestockThreshold == 1
WeekDays == 7
MonthsPerYear == 12
TopProductsLimit == 5
RecentSalesLimit == 5
DefaultPageLimit == 20
AnalyticsTopLimit == 10
TrendDays == 30

\* largest number of low-stock products of one user in an explored store
MaxLowStock == AlertDataLimit + 1

\* largest number of products with sales in an explored store
MaxSold == AlertDataLimit + 1

Users == {"u1", "u2"}
ProductStatuses == {"active", "low_stock", "out_of_stock", "archived"}
SaleStatuses == {"pending", "paid", "shipped", "delivered", "completed", "cancelled", "refunded"}

\* users.subscription.type; u1 is a free-tier account, u2 a pro account
SubscriptionType(u) == IF u = "u1" THEN "free" ELSE "pro"

\* ObjectIds a request may carry; MaxProducts + 1 never names a document
ProductIds == 1..(MaxProducts + 1)
SaleIds == 1..MaxSales
Reqs == 1..MaxSales

VARIABLES
  products,   \* Product collection: sequence of documents, _id = index
  sales,      \* Sale collection: sequence of documents, _id = index
  reqs,       \* POST /api/sales requests suspended between findOne and save
  res,        \* HTTP status of the most recent response
  applied,    \* history: per sale, the $inc its post('save') hook issued
  expenses,   \* Expense collection: sequence of documents, _id = index
  out,        \* most recent dashboard exchange: the request and the response body
  seen,       \* history: the latest alerts exchange and the store it was computed from
  slice       \* mobile app: the dashboard slice of the store and its thunks in flight

vars == <<products, sales, reqs, res, applied, expenses, out, seen, slice>>

\* what the write routes leave alone
readVars == <<expenses, out, seen, slice>>

Idle == [pc |-> "idle"]

\* dashboardSlice initialState, with no thunk dispatched; data and alerts
\* map each thunk in flight to its request
initialState ==
  [isLoading |-> FALSE, isLoadingAlerts |-> FALSE, error |-> "null", period |-> "month",
   loaded |-> "null", data |-> [id \in FetchIds |-> "none"], alerts |-> {}]
NoResponse == [route |-> "none"]
NoEffect == [product |-> 0, quantity |-> 0]

(* ----------------------------- Product --------------------------------- *)

\* a lower bound of the low_stock band that leaves the threshold itself out
ProductPreSaveStrict(doc) ==
  IF doc.quantity = 0
    THEN [doc EXCEPT !.status = "out_of_stock"]
    ELSE IF doc.quantity < doc.restockThreshold
      THEN [doc EXCEPT !.status = "low_stock"]
      ELSE [doc EXCEPT !.status = "active"]

\* productSchema.pre('save'): status from quantity and restockThreshold
ProductPreSave(doc) ==
  IF doc.quantity = 0
    THEN [doc EXCEPT !.status = "out_of_stock"]
    ELSE IF doc.quantity <= doc.restockThreshold
      THEN [doc EXCEPT !.status = "low_stock"]
      ELSE [doc EXCEPT !.status = "active"]

\* new Product({...req.body, user}) with the schema defaults
NewProduct(u, q, thr, st) ==
  [user |-> u, quantity |-> q, restockThreshold |-> thr, status |-> st,
   isArchived |-> FALSE, totalSales |-> 0, purchasePrice |-> 1]

\* the count without the isArchived filter
ProductCountArchived(ps, u) == Cardinality({i \in DOMAIN ps : ps[i].user = u})

\* Product.countDocuments({user, isArchived: false})
ProductCount(ps, u) ==
  Cardinality({i \in DOMAIN ps : ps[i].user = u /\ ~ps[i].isArchived})

\* a lookup by _id alone, without the owner in the filter
ProductFoundAnyUser(id, u) ==
  id \in DOMAIN products

\* Product.findOne({_id, user}) finds a document
ProductFound(id, u) ==
  id \in DOMAIN products /\ products[id].user = u

\* Product.findByIdAndUpdate(id, {$inc: {'inventory.quantity': dq, 'analytics.totalSales': dt}})
IncProduct(ps, id, dq, dt) ==
  IF id \in DOMAIN ps
    THEN [ps EXCEPT ![id].quantity = @ + dq, ![id].totalSales = @ + dt]
    ELSE ps

\* the counters stay inside the explored range after an $inc
IncInRange(id, dq, dt) ==
  id \in DOMAIN products =>
    /\ products[id].quantity + dq <= CounterCap
    /\ products[id].totalSales + dt <= CounterCap
    /\ products[id].totalSales + dt >= -CounterCap

\* POST /api/inventory (inventoryLimitMiddleware, then new Product(...).save())
PostInventory(u, q, thr, st) ==
  /\ IF SubscriptionType(u) = "free" /\ ProductCount(products, u) >= FreeLimit
       THEN /\ res' = 403
            /\ UNCHANGED products
       ELSE /\ Len(products) < MaxProducts
            /\ products' = Append(products, ProductPreSave(NewProduct(u, q, thr, st)))
            /\ res' = 201
  /\ UNCHANGED <<sales, reqs, applied>>
  /\ UNCHANGED readVars

\* POST /api/inventory up to the end of inventoryLimitMiddleware: the count
\* is read and the request goes on to the handler
PostInventoryLimit(r, u, q) ==
  /\ reqs[r] = Idle
  /\ IF SubscriptionType(u) = "free" /\ ProductCount(products, u) >= FreeLimit
       THEN /\ res' = 403
            /\ UNCHANGED reqs
       ELSE /\ reqs' = [reqs EXCEPT ![r] = [pc |-> "create", user |-> u, quantity |-> q]]
            /\ UNCHANGED res
  /\ UNCHANGED <<products, sales, applied>>
  /\ UNCHANGED readVars

\* POST /api/inventory, the handler: new Product(...).save()
PostInventoryCreate(r) ==
  /\ reqs[r].pc = "create"
  /\ Len(products) < FreeLimit + MaxProducts + 1
  /\ products' = Append(products,
                        ProductPreSave(NewProduct(reqs[r].user, reqs[r].quantity,
                                                  DefaultRestockThreshold, "active")))
  /\ res' = 201
  /\ reqs' = [reqs EXCEPT ![r] = Idle]
  /\ UNCHANGED <<sales, applied>>
  /\ UNCHANGED readVars

\* request bodies of PUT /api/inventory/:id, one path per request
QuantityBodies ==
  [f : {"quantity"}, v : 0..MaxQty]

ProductBodies ==
  QuantityBodies \cup
  [f : {"status"}, v : ProductStatuses] \cup
  [f : {"name"}, v : {0}]

\* request bodies that set the archive flag
ArchiveBodies == [f : {"isArchived"}, v : BOOLEAN]

\* the $set Mongoose derives from the request body
ApplyProductUpdate(doc, body) ==
  CASE body.f = "quantity" -> [doc EXCEPT !.quantity = body.v]
    [] body.f = "status" -> [doc EXCEPT !.status = body.v]
    [] body.f = "isArchived" -> [doc EXCEPT !.isArchived = body.v]
    [] OTHER -> doc

\* PUT /api/inventory/:id
PutInventory(u, id, body) ==
  /\ IF ProductFound(id, u)
       THEN /\ products' = [products EXCEPT ![id] = ApplyProductUpdate(@, body)]
            /\ res' = 200
       ELSE /\ res' = 404
            /\ UNCHANGED products
  /\ UNCHANGED <<sales, reqs, applied>>
  /\ UNCHANGED readVars

\* DELETE /api/inventory/:id
DeleteInventory(u, id) ==
  /\ IF ProductFound(id, u)
       THEN /\ products' = [products EXCEPT ![id].isArchived = TRUE]
            /\ res' = 200
       ELSE /\ res' = 404
            /\ UNCHANGED products
  /\ UNCHANGED <<sales, reqs, applied>>
  /\ UNCHANGED readVars

\* POST /api/inventory/bulk with a one-element products array
BulkImport(u, q, st) ==
  /\ IF SubscriptionType(u) # "pro"
       THEN /\ res' = 403
            /\ UNCHANGED products
       ELSE /\ Len(products) < MaxProducts
            /\ products' = Append(products, NewProduct(u, q, DefaultRestockThreshold, st))
            /\ res' = 201
  /\ UNCHANGED <<sales, reqs, applied>>
  /\ UNCHANGED readVars

(* ------------------------------- Sale ---------------------------------- *)

\* request bodies of POST /api/sales that pass the express-validator chain
PostStatuses == {"pending", "completed"}

\* (a product id not assigned yet names a missing product)
SaleBodies ==
  [product : 1..MaxProducts, quantity : 1..MaxQty, status : PostStatuses]

\* new Sale({...req.body, user})
NewSale(u, body) ==
  [user |-> u, product |-> body.product, quantity |-> body.quantity,
   status |-> body.status, isReturned |-> FALSE, isArchived |-> FALSE]

\* saleSchema.post('save'): the guard of the completion effect
CompletionApplies(doc) ==
  doc.status = "completed" /\ ~doc.isReturned

\* saleSchema.post('save')
SalePostSave(ps, doc) ==
  IF CompletionApplies(doc)
    THEN IncProduct(ps, doc.product, -doc.quantity, doc.quantity)
    ELSE ps

\* history of saleSchema.post('save'): what the hook took from stock
EffectOf(doc) ==
  IF CompletionApplies(doc)
    THEN [product |-> doc.product, quantity |-> doc.quantity]
    ELSE NoEffect

\* saleSchema.post('findOneAndUpdate'): the guard of the restock
RestockApplies(doc) ==
  doc.status = "cancelled" \/ doc.status = "refunded"

\* saleSchema.post('findOneAndUpdate')
SalePostFindOneAndUpdate(ps, doc) ==
  IF RestockApplies(doc)
    THEN IncProduct(ps, doc.product, doc.quantity, -doc.quantity)
    ELSE ps

\* POST /api/sales: the inventory check "product.inventory.quantity < req.body.quantity"
InsufficientInventory(id, q) ==
  products[id].quantity < q

\* sale.save() with its post('save') hook, then the 201 response
SaveSale(u, body) ==
  LET doc == NewSale(u, body) IN
    /\ (CompletionApplies(doc) => IncInRange(doc.product, -doc.quantity, doc.quantity))
    /\ sales' = Append(sales, doc)
    /\ applied' = Append(applied, EffectOf(doc))
    /\ products' = SalePostSave(products, doc)
    /\ res' = 201

\* POST /api/sales, run without interleaving
PostSale(u, body) ==
  /\ IF ~ProductFound(body.product, u)
       THEN /\ res' = 404
            /\ UNCHANGED <<products, sales, applied>>
       ELSE IF InsufficientInventory(body.product, body.quantity)
         THEN /\ res' = 400
              /\ UNCHANGED <<products, sales, applied>>
         ELSE /\ Len(sales) < MaxSales
              /\ SaveSale(u, body)
  /\ UNCHANGED reqs
  /\ UNCHANGED readVars

\* POST /api/sales up to the await before sale.save()
PostSaleCheck(r, u, body) ==
  /\ reqs[r] = Idle
  /\ \A x \in Reqs : x < r => reqs[x] # Idle
  /\ IF ~ProductFound(body.product, u)
       THEN /\ res' = 404
            /\ UNCHANGED reqs
       ELSE IF InsufficientInventory(body.product, body.quantity)
         THEN /\ res' = 400
              /\ UNCHANGED reqs
         ELSE /\ Len(sales) + Cardinality({x \in Reqs : reqs[x] # Idle}) < MaxSales
              /\ reqs' = [reqs EXCEPT ![r] = [pc |-> "save", user |-> u, body |-> body]]
              /\ UNCHANGED res
  /\ UNCHANGED <<products, sales, applied>>
  /\ UNCHANGED readVars

\* POST /api/sales from sale.save() to the response
PostSaleSave(r) ==
  /\ reqs[r] # Idle
  /\ SaveSale(reqs[r].user, reqs[r].body)
  /\ reqs' = [reqs EXCEPT ![r] = Idle]
  /\ UNCHANGED readVars

\* the hook writing back the quantity the handler read, less the sale's
HookWriteLastWins(ps, doc, read) ==
  IF CompletionApplies(doc)
    THEN [ps EXCEPT ![doc.product].quantity = read - doc.quantity,
                    ![doc.product].totalSales = @ + doc.quantity]
    ELSE ps

\* the hook's Product.findByIdAndUpdate(..., {$inc: ...}): the server adds to
\* the stored counters, whatever quantity the handler has read before
HookWrite(ps, doc, read) == SalePostSave(ps, doc)

\* POST /api/sales up to the inventory check; the handler keeps the product
\* document it has read
PostSaleFind(r, u, body) ==
  /\ reqs[r] = Idle
  /\ IF ~ProductFound(body.product, u)
       THEN /\ res' = 404
            /\ UNCHANGED reqs
       ELSE IF InsufficientInventory(body.product, body.quantity)
         THEN /\ res' = 400
              /\ UNCHANGED reqs
         ELSE /\ Len(sales) + Cardinality({x \in DOMAIN reqs : reqs[x] # Idle /\ reqs[x].sale = 0})
                   < MaxSales + 1
              /\ reqs' = [reqs EXCEPT ![r] = [pc |-> "save", user |-> u, body |-> body,
                                              read |-> products[body.product].quantity,
                                              sale |-> 0]]
              /\ UNCHANGED res
  /\ UNCHANGED <<products, sales, applied>>
  /\ UNCHANGED readVars

\* sale.save(): the document is inserted (or, when the write fails, the
\* catch block answers 500), and the post('save') hook is still to run
PostSaleInsert(r, failed) ==
  /\ reqs[r] # Idle
  /\ reqs[r].sale = 0
  /\ IF failed = "save"
       THEN /\ res' = 500
            /\ reqs' = [reqs EXCEPT ![r] = Idle]
            /\ UNCHANGED <<sales, applied>>
       ELSE /\ sales' = Append(sales, NewSale(reqs[r].user, reqs[r].body))
            /\ applied' = Append(applied, NoEffect)
            /\ reqs' = [reqs EXCEPT ![r].pc = "hook", ![r].sale = Len(sales) + 1]
            /\ UNCHANGED res
  /\ UNCHANGED products
  /\ UNCHANGED readVars

\* the post('save') hook, sale.populate and the response; failed names the
\* awaited call that rejects, which takes the handler to its catch block
PostSaleHook(r, failed) ==
  /\ reqs[r] # Idle
  /\ reqs[r].sale # 0
  /\ failed = "update" => CompletionApplies(sales[reqs[r].sale])
  /\ IF failed = "update"
       THEN /\ res' = 500
            /\ UNCHANGED <<products, applied>>
       ELSE /\ products' = HookWrite(products, sales[reqs[r].sale], reqs[r].read)
            /\ applied' = [applied EXCEPT ![reqs[r].sale] = EffectOf(sales[reqs[r].sale])]
            /\ res' = IF failed = "populate" THEN 500 ELSE 201
  /\ reqs' = [reqs EXCEPT ![r] = Idle]
  /\ UNCHANGED sales
  /\ UNCHANGED readVars

\* Sale.findOne({_id, user}) finds a document
SaleFound(id, u) ==
  id \in DOMAIN sales /\ sales[id].user = u

\* statuses sent in the modelled PUT /api/sales/:id requests
PutStatuses == {"pending", "completed", "cancelled", "refunded"}

\* request bodies of PUT /api/sales/:id, one path per request
SaleUpdates ==
  [f : {"status"}, v : PutStatuses] \cup
  [f : {"quantity"}, v : 1..MaxQty] \cup
  [f : {"product"}, v : ProductIds] \cup
  [f : {"isReturned"}, v : BOOLEAN] \cup
  [f : {"notes"}, v : {0}]

\* the $set Mongoose derives from the request body
ApplySaleUpdate(doc, body) ==
  CASE body.f = "status" -> [doc EXCEPT !.status = body.v]
    [] body.f = "quantity" -> [doc EXCEPT !.quantity = body.v]
    [] body.f = "product" -> [doc EXCEPT !.product = body.v]
    [] body.f = "isReturned" -> [doc EXCEPT !.isReturned = body.v]
    [] OTHER -> doc

\* Sale.findOneAndUpdate({_id, user}, update, {new: true}) with its post hook
SaleFindOneAndUpdate(id, doc) ==
  /\ (RestockApplies(doc) => IncInRange(doc.product, doc.quantity, -doc.quantity))
  /\ sales' = [sales EXCEPT ![id] = doc]
  /\ products' = SalePostFindOneAndUpdate(products, doc)

\* PUT /api/sales/:id
PutSale(u, id, body) ==
  /\ IF SaleFound(id, u)
       THEN /\ SaleFindOneAndUpdate(id, ApplySaleUpdate(sales[id], body))
            /\ res' = 200
       ELSE /\ res' = 404
            /\ UNCHANGED <<products, sales>>
  /\ UNCHANGED <<reqs, applied>>
  /\ UNCHANGED readVars

\* DELETE /api/sales/:id
DeleteSale(u, id) ==
  /\ IF SaleFound(id, u)
       THEN /\ SaleFindOneAndUpdate(id, [sales[id] EXCEPT !.isArchived = TRUE])
            /\ res' = 200
       ELSE /\ res' = 404
            /\ UNCHANGED <<products, sales>>
  /\ UNCHANGED <<reqs, applied>>
  /\ UNCHANGED readVars

(* ------------------------- specification ------------------------------- *)

Init ==
  /\ products = <<>>
  /\ sales = <<>>
  /\ reqs = [r \in Reqs |-> Idle]
  /\ res = 0
  /\ applied = <<>>
  /\ expenses = <<>>
  /\ out = NoResponse
  /\ seen = NoResponse
  /\ slice = initialState

\* the API served one request at a time
Next ==
  \/ \E u \in Users, q \in 0..MaxQty, st \in ProductStatuses : PostInventory(u, q, DefaultRestockThreshold, st)
  \/ \E u \in Users, id \in ProductIds, body \in ProductBodies : PutInventory(u, id, body)
  \/ \E u \in Users, id \in ProductIds : DeleteInventory(u, id)
  \/ \E u \in Users, q \in 0..MaxQty, st \in ProductStatuses : BulkImport(u, q, st)
  \/ \E u \in Users, body \in SaleBodies : PostSale(u, body)
  \/ \E u \in Users, id \in SaleIds, body \in SaleUpdates : PutSale(u, id, body)
  \/ \E u \in Users, id \in SaleIds : DeleteSale(u, id)

Spec == Init /\ [][Next]_vars

\* POST /api/sales requests interleaved with each other and with inventory edits
NextConc ==
  \/ \E u \in Users, q \in 0..MaxQty, st \in ProductStatuses : PostInventory(u, q, DefaultRestockThreshold, st)
  \/ \E u \in Users, id \in ProductIds, body \in QuantityBodies : PutInventory(u, id, body)
  \/ \E r \in Reqs, u \in Users, body \in SaleBodies : PostSaleCheck(r, u, body)
  \/ \E r \in Reqs : PostSaleSave(r)

SpecConc == Init /\ [][NextConc]_vars

\* product creations and POST /api/sales requests, interleaved; the bulk
\* rows carry no status field, so the schema default is stored
NextCreate ==
  \/ \E u \in Users, q \in 0..MaxQty, st \in ProductStatuses : PostInventory(u, q, DefaultRestockThreshold, st)
  \/ \E u \in Users, q \in 0..MaxQty : BulkImport(u, q, "active")
  \/ \E r \in Reqs, u \in Users, body \in SaleBodies : PostSaleCheck(r, u, body)
  \/ \E r \in Reqs : PostSaleSave(r)

SpecCreate == Init /\ [][NextCreate]_vars

\* the product routes that save or archive whole documents, with the
\* restock threshold chosen by the client
NextStock ==
  \/ \E u \in Users, q \in 0..MaxQty, thr \in 0..MaxQty, st \in ProductStatuses :
       PostInventory(u, q, thr, st)
  \/ \E u \in Users, id \in ProductIds : DeleteInventory(u, id)
  \/ \E u \in Users, q \in 0..MaxQty, st \in ProductStatuses : BulkImport(u, q, st)

SpecStock == Init /\ [][NextStock]_vars

(* --------------------- GET /api/dashboard/alerts ----------------------- *)

\* the _ids of a collection in natural order
Ids(docs) == [i \in 1..Len(docs) |-> i]

\* Query.limit(n)
Limit(seq, n) == SubSeq(seq, 1, IF Len(seq) < n THEN Len(seq) ELSE n)

\* Product.find({user, isArchived: false, status: 'low_stock'}).limit(10)
LowStockProducts(ps, u) ==
  Limit(SelectSeq(Ids(ps), LAMBDA i : ps[i].user = u /\ ~ps[i].isArchived
                                       /\ ps[i].status = "low_stock"),
        AlertDataLimit)

\* Product.countDocuments({user, isArchived: false, status: 'out_of_stock'})
OutOfStockCount(ps, u) ==
  Cardinality({i \in DOMAIN ps : ps[i].user = u /\ ~ps[i].isArchived
                                   /\ ps[i].status = "out_of_stock"})

\* the count of the pending sales alone
PendingSalesCountUnpaid(ss, u) ==
  Cardinality({i \in DOMAIN ss : ss[i].user = u /\ ~ss[i].isArchived
                                   /\ ss[i].status = "pending"})

\* Sale.countDocuments({user, isArchived: false, status: {$in: ['pending', 'paid']}})
PendingSalesCount(ss, u) ==
  Cardinality({i \in DOMAIN ss : ss[i].user = u /\ ~ss[i].isArchived
                                   /\ ss[i].status \in {"pending", "paid"}})

Alert(type, severity, count, data, actionRequired) ==
  [type |-> type, severity |-> severity, count |-> count, data |-> data,
   actionRequired |-> actionRequired]

\* the alerts array of the GET /api/dashboard/alerts response
GetAlerts(ps, ss, u) ==
  (IF Len(LowStockProducts(ps, u)) > 0
     THEN <<Alert("low_stock", "warning", Len(LowStockProducts(ps, u)),
                  LowStockProducts(ps, u), TRUE)>>
     ELSE <<>>)
  \o (IF OutOfStockCount(ps, u) > 0
        THEN <<Alert("out_of_stock", "error", OutOfStockCount(ps, u), <<>>, TRUE)>>
        ELSE <<>>)
  \o (IF SubscriptionType(u) = "free" /\ ProductCount(ps, u) >= SubscriptionAlertAt
        THEN <<Alert("subscription_limit", "info", ProductCount(ps, u),
                     [currentCount |-> ProductCount(ps, u), limit |-> FreeLimit], FALSE)>>
        ELSE <<>>)
  \o (IF PendingSalesCount(ss, u) > 0
        THEN <<Alert("pending_sales", "info", PendingSalesCount(ss, u), <<>>, TRUE)>>
        ELSE <<>>)

\* the handler archiving the sales it has reported
GetDashboardAlertsArchiving(u) ==
  /\ res' = 200
  /\ out' = [route |-> "alerts", user |-> u, success |-> TRUE,
             data |-> [alerts |-> GetAlerts(products, sales, u),
                       count |-> Len(GetAlerts(products, sales, u))]]
  /\ seen' = [route |-> "alerts", user |-> u, products |-> products, sales |-> sales,
              alerts |-> GetAlerts(products, sales, u)]
  /\ sales' = [i \in DOMAIN sales |->
                 [sales[i] EXCEPT !.isArchived = @ \/ sales[i].user = u]]
  /\ UNCHANGED <<products, reqs, applied, expenses, slice>>

\* router.get('/alerts'): the response body
GetDashboardAlerts(u) ==
  /\ res' = 200
  /\ out' = [route |-> "alerts", user |-> u, success |-> TRUE,
             data |-> [alerts |-> GetAlerts(products, sales, u),
                       count |-> Len(GetAlerts(products, sales, u))]]
  /\ seen' = [route |-> "alerts", user |-> u, products |-> products, sales |-> sales,
              alerts |-> GetAlerts(products, sales, u)]
  /\ UNCHANGED <<products, sales, reqs, applied, expenses, slice>>

(* ------------------------- GET /api/dashboard -------------------------- *)

\* Time is counted in whole days.  The model calendar has MonthsPerYear
\* months of DaysPerMonth days each; months and years are numbered from 0
\* as Date.getMonth() and the model's getFullYear() do.
DaysPerYear == MonthsPerYear * DaysPerMonth

\* Date.prototype.getFullYear / getMonth
GetFullYear(t) == t \div DaysPerYear
GetMonth(t) == (t % DaysPerYear) \div DaysPerMonth
GetDate(t) == (t % DaysPerMonth) + 1

\* new Date(year, monthIndex, day)
MkDate(y, m, d) == y * DaysPerYear + m * DaysPerMonth + (d - 1)

\* req.query.period and req.query.currency; "none" is an absent parameter
Periods == {"none", "week", "month", "quarter", "year"}
Currencies == {"GBP", "USD"}
CurrencyQueries == {"none"} \cup Currencies

\* users.currency; u1 keeps the default, u2 has chosen USD
UserCurrency(u) == IF u = "u1" THEN "GBP" ELSE "USD"

\* const period = req.query.period || 'month'
PeriodOf(p) == IF p = "none" THEN "month" ELSE p

\* const currency = req.query.currency || req.user.currency
CurrencyOf(u, c) == IF c = "none" THEN UserCurrency(u) ELSE c

\* the quarter block starting at month 0 whatever the month is
QuarterMonthFirst(m) == 0

\* Math.floor(now.getMonth() / 3) * 3
QuarterMonth(m) == (m \div 3) * 3

\* the switch on period: startDate
StartDate(period, now) ==
  CASE period = "week" -> now - WeekDays
    [] period = "quarter" -> MkDate(GetFullYear(now), QuarterMonth(GetMonth(now)), 1)
    [] period = "year" -> MkDate(GetFullYear(now), 0, 1)
    [] OTHER -> MkDate(GetFullYear(now), GetMonth(now), 1)

\* $sum of a field (given as a function of _id) over a set of documents
RECURSIVE SumSet(_, _)
SumSet(f, S) ==
  IF S = {} THEN 0
  ELSE LET x == CHOOSE y \in S : TRUE IN f[x] + SumSet(f, S \ {x})

\* Number.prototype.toFixed(2) followed by parseFloat, of num / den: the
\* quotient in hundredths, rounded half away from zero; NaN and Infinity
\* for a zero denominator
Abs(n) == IF n < 0 THEN -n ELSE n
Sign(n) == IF n < 0 THEN -1 ELSE 1
ToFixed2(num, den) ==
  IF den = 0
    THEN (IF num = 0 THEN "NaN" ELSE "Infinity")
    ELSE Sign(num) * Sign(den) * ((2 * Abs(num) * 100 + Abs(den)) \div (2 * Abs(den)))

\* a whole number in the unit of ToFixed2
Whole(n) == n * 100

\* a fee total that adds the promotion discount
SaleFeesPlusDiscount(doc) ==
  doc.fees.platformFee + doc.fees.paymentFee + doc.fees.shippingFee + doc.fees.other
    + doc.fees.promotionDiscount

\* the fee expression of the $group stage: $add of four fees and
\* promotionDiscount * -1
SaleFees(doc) ==
  doc.fees.platformFee + doc.fees.paymentFee + doc.fees.shippingFee + doc.fees.other
    + doc.fees.promotionDiscount * (-1)

\* $match of salesMetrics: {user, isArchived: false, saleDate: {$gte: startDate}, currency}
SalesMatch(ss, u, start, c) ==
  {i \in DOMAIN ss : /\ ss[i].user = u
                     /\ ~ss[i].isArchived
                     /\ ss[i].saleDate >= start
                     /\ ss[i].currency = c}

\* $match of expenseMetrics: {user, isArchived: false, date: {$gte: startDate}, currency}
ExpensesMatch(es, u, start, c) ==
  {i \in DOMAIN es : /\ es[i].user = u
                     /\ ~es[i].isArchived
                     /\ es[i].date >= start
                     /\ es[i].currency = c}

\* $match of topProducts, platformPerformance and salesTrend:
\* {user, isArchived: false, saleDate: {$gte: startDate}}
PeriodSalesMatch(ss, u, start) ==
  {i \in DOMAIN ss : ss[i].user = u /\ ~ss[i].isArchived /\ ss[i].saleDate >= start}

\* $match of expenseBreakdown: {user, isArchived: false, date: {$gte: startDate}}
PeriodExpensesMatch(es, u, start) ==
  {i \in DOMAIN es : es[i].user = u /\ ~es[i].isArchived /\ es[i].date >= start}

\* previousPeriodStart.setTime(startDate.getTime() - periodLength)
PreviousPeriodStart(start, now) == start - (now - start)

\* a comparison window that is closed at startDate
PreviousSalesMatchClosed(ss, u, start, now, c) ==
  {i \in DOMAIN ss : /\ ss[i].user = u
                     /\ ~ss[i].isArchived
                     /\ ss[i].saleDate >= PreviousPeriodStart(start, now)
                     /\ ss[i].saleDate <= start
                     /\ ss[i].currency = c}

\* $match of previousSalesMetrics: saleDate: {$gte: previousPeriodStart, $lt: startDate}
PreviousSalesMatch(ss, u, start, now, c) ==
  {i \in DOMAIN ss : /\ ss[i].user = u
                     /\ ~ss[i].isArchived
                     /\ ss[i].saleDate >= PreviousPeriodStart(start, now)
                     /\ ss[i].saleDate < start
                     /\ ss[i].currency = c}

\* the fields of the documents as functions of _id
SalePrices(ss) == [i \in DOMAIN ss |-> ss[i].salePrice]
SaleQuantities(ss) == [i \in DOMAIN ss |-> ss[i].quantity]
SaleFeeTotals(ss) == [i \in DOMAIN ss |-> SaleFees(ss[i])]
ExpenseAmounts(es) == [i \in DOMAIN es |-> es[i].amount]
PurchasePrices(ps) == [i \in DOMAIN ps |-> ps[i].purchasePrice]

\* $avg: the mean as numerator and denominator
Avg(f, S) == [sum |-> SumSet(f, S), n |-> Cardinality(S)]

\* salesMetrics[0] || {totalSales: 0, totalRevenue: 0, totalFees: 0, averageOrderValue: 0}
SalesData(ss, M) ==
  IF M = {}
    THEN [totalSales |-> 0, totalRevenue |-> 0, totalFees |-> 0, averageOrderValue |-> 0]
    ELSE [totalSales |-> Cardinality(M),
          totalRevenue |-> SumSet(SalePrices(ss), M),
          totalFees |-> SumSet(SaleFeeTotals(ss), M),
          averageOrderValue |-> Avg(SalePrices(ss), M)]

\* expenseMetrics[0] || {totalExpenses: 0, expenseCount: 0}
ExpenseData(es, M) ==
  IF M = {}
    THEN [totalExpenses |-> 0, expenseCount |-> 0]
    ELSE [totalExpenses |-> SumSet(ExpenseAmounts(es), M), expenseCount |-> Cardinality(M)]

\* inventoryOverview[0] || {totalProducts: 0, totalValue: 0, lowStockItems: 0, outOfStockItems: 0}
InventoryData(ps, u) ==
  LET M == {i \in DOMAIN ps : ps[i].user = u /\ ~ps[i].isArchived} IN
    IF M = {}
      THEN [totalProducts |-> 0, totalValue |-> 0, lowStockItems |-> 0, outOfStockItems |-> 0]
      ELSE [totalProducts |-> Cardinality(M),
            totalValue |-> SumSet(PurchasePrices(ps), M),
            lowStockItems |-> Cardinality({i \in M : ps[i].status = "low_stock"}),
            outOfStockItems |-> Cardinality({i \in M : ps[i].status = "out_of_stock"})]

\* a guard that lets a negative net revenue through to the division
ProfitMarginNonZero(netProfit, netRevenue) ==
  IF netRevenue # 0 THEN ToFixed2(netProfit * 100, netRevenue) ELSE 0

\* netRevenue > 0 ? ((netProfit / netRevenue) * 100).toFixed(2) : 0
ProfitMargin(netProfit, netRevenue) ==
  IF netRevenue > 0 THEN ToFixed2(netProfit * 100, netRevenue) ELSE 0

\* growth without the zero-base rule
GrowthNoRule(current, previous) ==
  IF previous > 0 THEN ToFixed2((current - previous) * 100, previous) ELSE 0

\* previous > 0 ? (((current - previous) / previous) * 100).toFixed(2) : current > 0 ? 100 : 0
Growth(current, previous) ==
  IF previous > 0
    THEN ToFixed2((current - previous) * 100, previous)
    ELSE IF current > 0 THEN Whole(100) ELSE 0

\* $sort descending on a field followed by $limit, on a set of groups
\* (the order among the groups that are kept is not represented)
TopBy(G, key, n) ==
  IF Cardinality(G) <= n
    THEN G
    ELSE CHOOSE S \in SUBSET G :
           Cardinality(S) = n /\ \A a \in S, b \in G \ S : key[a] >= key[b]

\* the ascending order
SortsBeforeAscending(key, a, b) == key[a] <= key[b]

\* {field: -1}: a does not come after b in descending order of the field
SortsBefore(key, a, b) == key[a] >= key[b]

\* $sort: {field: -1} on a set of groups; the order among groups with equal
\* keys is one fixed order
RECURSIVE SortDesc(_, _)
SortDesc(G, key) ==
  IF G = {}
    THEN <<>>
    ELSE LET m == CHOOSE a \in G : \A b \in G : SortsBefore(key, a, b)
         IN <<m>> \o SortDesc(G \ {m}, key)

\* topProducts: $group by product, $sort totalSold desc, $limit n, $lookup
TopProducts(ps, ss, M, n) ==
  LET G == {[_id |-> p,
             totalSold |-> SumSet(SaleQuantities(ss), {i \in M : ss[i].product = p}),
             totalRevenue |-> SumSet(SalePrices(ss), {i \in M : ss[i].product = p}),
             product |-> IF p \in DOMAIN ps THEN p ELSE 0] : p \in {ss[i].product : i \in M}}
  IN Limit(SortDesc(G, [g \in G |-> g.totalSold]), n)

\* platformPerformance: $group by platform
PlatformPerformance(ss, M) ==
  {[_id |-> p,
    sales |-> Cardinality({i \in M : ss[i].platform = p}),
    revenue |-> SumSet(SalePrices(ss), {i \in M : ss[i].platform = p})] :
     p \in {ss[i].platform : i \in M}}

\* the $group key of salesTrend: $year, $month, $dayOfMonth of saleDate
DayOf(t) == [year |-> GetFullYear(t), month |-> GetMonth(t) + 1, day |-> GetDate(t)]

\* salesTrend: $group by calendar day
SalesTrend(ss, M) ==
  {[_id |-> DayOf(d),
    sales |-> Cardinality({i \in M : ss[i].saleDate = d}),
    revenue |-> SumSet(SalePrices(ss), {i \in M : ss[i].saleDate = d})] :
     d \in {ss[i].saleDate : i \in M}}

\* expenseBreakdown: $group by category
ExpenseBreakdown(es, M) ==
  {[_id |-> k,
    amount |-> SumSet(ExpenseAmounts(es), {i \in M : es[i].category = k}),
    count |-> Cardinality({i \in M : es[i].category = k})] :
     k \in {es[i].category : i \in M}}

\* recentSales: the user's newest non-archived sales, cut to five
RecentSales(ss, u) ==
  TopBy({i \in DOMAIN ss : ss[i].user = u /\ ~ss[i].isArchived},
        [i \in DOMAIN ss |-> ss[i].saleDate], RecentSalesLimit)

\* the data object of the GET /api/dashboard response
Dashboard(ps, ss, es, u, p, c, now) ==
  LET period == PeriodOf(p)
      currency == CurrencyOf(u, c)
      startDate == StartDate(period, now)
      salesData == SalesData(ss, SalesMatch(ss, u, startDate, currency))
      expenseData == ExpenseData(es, ExpensesMatch(es, u, startDate, currency))
      netRevenue == salesData.totalRevenue - salesData.totalFees
      netProfit == netRevenue - expenseData.totalExpenses
      previousData == SalesData(ss, PreviousSalesMatch(ss, u, startDate, now, currency))
  IN [period |-> [type |-> period, startDate |-> startDate, endDate |-> now],
      metrics |->
        [inventory |-> InventoryData(ps, u),
         sales |-> [totalSales |-> salesData.totalSales,
                    totalRevenue |-> salesData.totalRevenue,
                    totalFees |-> salesData.totalFees,
                    averageOrderValue |-> salesData.averageOrderValue,
                    netRevenue |-> netRevenue,
                    growth |-> Growth(salesData.totalSales, previousData.totalSales)],
         expenses |-> expenseData,
         profit |-> [netProfit |-> netProfit,
                     profitMargin |-> ProfitMargin(netProfit, netRevenue),
                     revenueGrowth |-> Growth(salesData.totalRevenue,
                                              previousData.totalRevenue)]],
      charts |->
        [salesTrend |-> SalesTrend(ss, PeriodSalesMatch(ss, u, startDate)),
         platformPerformance |-> PlatformPerformance(ss, PeriodSalesMatch(ss, u, startDate)),
         expenseBreakdown |-> ExpenseBreakdown(es, PeriodExpensesMatch(es, u, startDate))],
      insights |->
        [topProducts |-> TopProducts(ps, ss, PeriodSalesMatch(ss, u, startDate),
                                     TopProductsLimit),
         recentSales |-> RecentSales(ss, u)]]

\* values of the period query parameter, one of them outside the isIn list
PeriodQueries == Periods \cup {"day"}

\* the queries the handler awaits, in the order it issues them
Queries ==
  <<"inventoryOverview", "salesMetrics", "expenseMetrics", "topProducts", "recentSales",
    "platformPerformance", "salesTrend", "expenseBreakdown", "previousSalesMetrics">>

\* the query that rejects during a request, if one does
Failures == {"none"} \cup {Queries[k] : k \in DOMAIN Queries}

\* the handler answering with what it has when a chart query rejects
GetDashboardDegraded(u, p, c, now, failed) ==
  /\ IF p \notin Periods
       THEN /\ res' = 400
            /\ out' = [route |-> "dashboard", user |-> u, period |-> p, currency |-> c,
                       now |-> now, failed |-> failed, success |-> FALSE]
       ELSE IF failed \notin {"none", "salesTrend", "platformPerformance", "expenseBreakdown"}
         THEN /\ res' = 500
              /\ out' = [route |-> "dashboard", user |-> u, period |-> p, currency |-> c,
                         now |-> now, failed |-> failed, success |-> FALSE]
         ELSE /\ res' = 200
              /\ out' = [route |-> "dashboard", user |-> u, period |-> p, currency |-> c,
                         now |-> now, failed |-> failed, success |-> TRUE,
                         data |-> Dashboard(products, sales, expenses, u, p, c, now)]
  /\ UNCHANGED <<products, sales, reqs, applied, expenses, seen, slice>>

\* GET /api/dashboard at clock reading now; failed names the awaited query
\* that rejects, which takes the handler to its catch block
GetDashboard(u, p, c, now, failed) ==
  /\ IF p \notin Periods
       THEN /\ res' = 400
            /\ out' = [route |-> "dashboard", user |-> u, period |-> p, currency |-> c,
                       now |-> now, failed |-> failed, success |-> FALSE]
       ELSE IF failed # "none"
         THEN /\ res' = 500
              /\ out' = [route |-> "dashboard", user |-> u, period |-> p, currency |-> c,
                         now |-> now, failed |-> failed, success |-> FALSE]
         ELSE /\ res' = 200
              /\ out' = [route |-> "dashboard", user |-> u, period |-> p, currency |-> c,
                         now |-> now, failed |-> failed, success |-> TRUE,
                         data |-> Dashboard(products, sales, expenses, u, p, c, now)]
  /\ UNCHANGED <<products, sales, reqs, applied, expenses, seen, slice>>

\* the exchange in out is a successful dashboard response
IsDashboard == out.route = "dashboard" /\ out.success

(* ---------------------------- GET /api/sales --------------------------- *)

\* netAmount > 0 ? ((profit / netAmount) * 100).toFixed(2) : 0
SaleMargin(profit, netAmount) ==
  IF netAmount > 0 THEN ToFixed2(profit * 100, netAmount) ELSE 0

\* sale.product?.pricing?.purchasePrice || 0, on the populated product
PurchasePriceOf(ps, doc) ==
  IF doc.product \in DOMAIN ps THEN ps[doc.product].purchasePrice ELSE 0

\* one element of salesWithProfit
WithProfit(ps, doc) ==
  LET netAmount == doc.salePrice - (doc.fees.platformFee + doc.fees.paymentFee
                     + doc.fees.shippingFee + doc.fees.other - doc.fees.promotionDiscount)
      profit == netAmount - PurchasePriceOf(ps, doc) * doc.quantity
  IN [netAmount |-> netAmount, profit |-> profit,
      profitMargin |-> SaleMargin(profit, netAmount)]

\* GET /api/sales without query parameters: the first page of the user's
\* non-archived sales, newest first, keyed by _id
GetSales(u) ==
  LET page == TopBy({i \in DOMAIN sales : sales[i].user = u /\ ~sales[i].isArchived},
                    [i \in DOMAIN sales |-> sales[i].saleDate], DefaultPageLimit)
  IN /\ res' = 200
     /\ out' = [route |-> "sales", user |-> u, success |-> TRUE,
                data |-> [sales |-> [i \in page |-> WithProfit(products, sales[i])]]]
     /\ UNCHANGED <<products, sales, reqs, applied, expenses, seen, slice>>

(* ------------------ GET /api/sales/analytics/summary ------------------- *)

\* $match of salesSummary, platformBreakdown and topProducts:
\* {user, isArchived: false, saleDate: {$gte: startDate, $lte: endDate}}
RangeSalesMatch(ss, u, start, end) ==
  {i \in DOMAIN ss : /\ ss[i].user = u /\ ~ss[i].isArchived
                     /\ ss[i].saleDate >= start /\ ss[i].saleDate <= end}

\* req.query.startDate and endDate, or the current month: its first day and
\* new Date(year, month + 1, 0), the last one
AnalyticsRange(range, now) ==
  IF range.given
    THEN [startDate |-> range.startDate, endDate |-> range.endDate]
    ELSE [startDate |-> MkDate(GetFullYear(now), GetMonth(now), 1),
          endDate |-> MkDate(GetFullYear(now), GetMonth(now) + 1, 0)]

\* GET /api/sales/analytics/summary at clock reading now
GetSalesAnalytics(u, range, now) ==
  LET r == AnalyticsRange(range, now)
      M == RangeSalesMatch(sales, u, r.startDate, r.endDate)
  IN /\ res' = 200
     /\ out' = [route |-> "analytics", user |-> u, range |-> range, now |-> now,
                success |-> TRUE,
                data |-> [period |-> r,
                          summary |-> SalesData(sales, M),
                          platformBreakdown |-> PlatformPerformance(sales, M),
                          topProducts |-> TopProducts(products, sales, M, AnalyticsTopLimit),
                          dailyTrend |-> SalesTrend(sales,
                                           PeriodSalesMatch(sales, u, now - TrendDays))]]
     /\ UNCHANGED <<products, sales, reqs, applied, expenses, seen, slice>>

(* ---------------- mobile app: dashboardSlice, DashboardScreen ----------- *)

\* DashboardScreen.refreshDashboard: dispatch(fetchDashboardData({period:
\* period.type, ...})) and dispatch(fetchDashboardAlerts()); both pending
\* reducers run
RefreshDashboard(id) ==
  /\ slice.data[id] = "none" /\ id \notin slice.alerts
  /\ slice' = [slice EXCEPT !.isLoading = TRUE, !.error = "null",
                            !.isLoadingAlerts = TRUE,
                            !.data[id] = slice.period, !.alerts = @ \cup {id}]
  /\ UNCHANGED <<products, sales, reqs, res, applied, expenses, out, seen>>

\* fetchDashboardData.fulfilled
FetchDashboardDataFulfilled(id) ==
  /\ slice.data[id] # "none"
  /\ slice' = [slice EXCEPT !.isLoading = FALSE, !.loaded = slice.data[id],
                            !.period = slice.data[id], !.error = "null",
                            !.data[id] = "none"]
  /\ UNCHANGED <<products, sales, reqs, res, applied, expenses, out, seen>>

\* fetchDashboardData.rejected
FetchDashboardDataRejected(id) ==
  /\ slice.data[id] # "none"
  /\ slice' = [slice EXCEPT !.isLoading = FALSE, !.error = "data", !.data[id] = "none"]
  /\ UNCHANGED <<products, sales, reqs, res, applied, expenses, out, seen>>

\* fetchDashboardAlerts.fulfilled / rejected
FetchDashboardAlertsDone(id, ok) ==
  /\ id \in slice.alerts
  /\ slice' = [slice EXCEPT !.isLoadingAlerts = FALSE, !.alerts = @ \ {id},
                            !.error = IF ok THEN @ ELSE "alerts"]
  /\ UNCHANGED <<products, sales, reqs, res, applied, expenses, out, seen>>

\* the setPeriod reducer
SetPeriod(p) ==
  /\ slice' = [slice EXCEPT !.period = p]
  /\ UNCHANGED <<products, sales, reqs, res, applied, expenses, out, seen>>

(* ------------------- saleSchema virtuals (Sale.js) ---------------------- *)

\* virtual('totalFees'), virtual('netAmount')
VirtualTotalFees(doc) ==
  doc.fees.platformFee + doc.fees.paymentFee + doc.fees.shippingFee + doc.fees.other
    - doc.fees.promotionDiscount
VirtualNetAmount(doc) == doc.salePrice - VirtualTotalFees(doc)

\* virtual('profit'): 0 unless the product is populated
VirtualProfit(ps, doc, populated) ==
  IF populated /\ doc.product \in DOMAIN ps
    THEN VirtualNetAmount(doc) - ps[doc.product].purchasePrice * doc.quantity
    ELSE 0

\* virtual('profitMargin')
VirtualProfitMargin(ps, doc, populated) ==
  IF VirtualNetAmount(doc) > 0
    THEN ToFixed2(VirtualProfit(ps, doc, populated) * 100, VirtualNetAmount(doc))
    ELSE 0

(* -------------------- dashboard specifications ------------------------- *)

\* the clock reading of the requests below: the 9th of May of year 1
DashNow == MkDate(1, 4, 9)

\* the products the sales below refer to
DashProducts ==
  <<[user |-> "u1", quantity |-> 1, restockThreshold |-> 1, status |-> "low_stock",
     isArchived |-> FALSE, totalSales |-> 0, purchasePrice |-> 1],
    [user |-> "u2", quantity |-> 0, restockThreshold |-> 1, status |-> "out_of_stock",
     isArchived |-> FALSE, totalSales |-> 0, purchasePrice |-> 2]>>

NoFees ==
  [platformFee |-> 0, paymentFee |-> 0, shippingFee |-> 0, other |-> 0, promotionDiscount |-> 0]

\* a sale of u1 made the day before DashNow, and documents that differ from
\* it in its date, its amounts, its currency, its owner or its archive flag
\* (the net amounts are 2, -1, 0 and 1)
DashSale ==
  [user |-> "u1", isArchived |-> FALSE, saleDate |-> DashNow - 1, currency |-> "GBP",
   salePrice |-> 3, fees |-> [NoFees EXCEPT !.platformFee = 1], quantity |-> 2,
   product |-> 1, platform |-> "ebay", status |-> "pending"]

DashSales ==
  {DashSale,
   [DashSale EXCEPT !.saleDate = DashNow + 1],
   [DashSale EXCEPT !.saleDate = DashNow - WeekDays],
   [DashSale EXCEPT !.saleDate = DashNow - WeekDays - 2],
   [DashSale EXCEPT !.salePrice = 1, !.quantity = 1, !.platform = "vinted",
                    !.fees = [NoFees EXCEPT !.paymentFee = 3, !.promotionDiscount = 1]],
   [DashSale EXCEPT !.currency = "USD"],
   [DashSale EXCEPT !.user = "u2", !.product = 2,
                    !.fees = [NoFees EXCEPT !.shippingFee = 3]],
   [DashSale EXCEPT !.isArchived = TRUE, !.fees = [NoFees EXCEPT !.other = 2]]}

DashExpense ==
  [user |-> "u1", isArchived |-> FALSE, date |-> DashNow - 1, currency |-> "GBP",
   amount |-> 1, category |-> "Shipping"]

DashExpenses ==
  {DashExpense,
   [DashExpense EXCEPT !.date = DashNow + 1],
   [DashExpense EXCEPT !.currency = "USD", !.amount = 2]}

\* the collections of at most n documents drawn from S
Stores(S, n) == UNION {[1..k -> S] : k \in 0..n}

\* a store that earlier requests have filled
InitDash ==
  /\ products = DashProducts
  /\ sales \in Stores(DashSales, MaxRecords)
  /\ applied = [i \in DOMAIN sales |-> NoEffect]
  /\ expenses \in Stores(DashExpenses, MaxRecords - 1)
  /\ reqs = [r \in Reqs |-> Idle]
  /\ res = 0
  /\ out = NoResponse
  /\ seen = NoResponse
  /\ slice = initialState

\* the read routes, at clock reading DashNow
NextDash ==
  \/ \E u \in Users, p \in {"none", "week"}, c \in {"none", "USD"} :
       GetDashboard(u, p, c, DashNow, "none")
  \/ \E u \in Users : GetSales(u)

SpecDash == InitDash /\ [][NextDash]_vars


\* GET /api/dashboard over an empty store, at every reading of the clock
NextPeriod ==
  \E u \in Users, p \in PeriodQueries, t \in 0..MaxTime : GetDashboard(u, p, "none", t, "none")

SpecPeriod == Init /\ [][NextPeriod]_vars

\* product documents of the alert stores
LowStockDoc == NewProduct("u1", 1, DefaultRestockThreshold, "low_stock")
OtherDocs ==
  {[LowStockDoc EXCEPT !.isArchived = TRUE],
   NewProduct("u1", 2, DefaultRestockThreshold, "active"),
   NewProduct("u1", 0, DefaultRestockThreshold, "out_of_stock"),
   NewProduct("u2", 1, DefaultRestockThreshold, "low_stock")}

\* numbers of low-stock products of u1 around the limit of the alert's data
LowStockCounts == {0, 1, AlertDataLimit, MaxLowStock}

\* further active products of one user, around the subscription threshold
Paddings ==
  {<<>>} \cup {[i \in 1..n |-> NewProduct(u, 2, DefaultRestockThreshold, "active")] :
                 u \in Users, n \in {SubscriptionAlertAt - 1, SubscriptionAlertAt}}

\* sale documents of the alert stores
AlertSales ==
  LET doc(st) == NewSale("u1", [product |-> 1, quantity |-> 1, status |-> st])
  IN {doc("pending"), doc("paid"), doc("completed"),
      [doc("pending") EXCEPT !.isArchived = TRUE]}

\* a store holding up to MaxLowStock low-stock products of one user, other
\* products, a block of active products, and some sales
InitAlerts ==
  /\ \E k \in LowStockCounts, rest \in Stores(OtherDocs, MaxRecords), pad \in Paddings :
       products = [i \in 1..k |-> LowStockDoc] \o rest \o pad
  /\ sales \in Stores(AlertSales, MaxSales)
  /\ applied = [i \in DOMAIN sales |-> NoEffect]
  /\ expenses = <<>>
  /\ reqs = [r \in Reqs |-> Idle]
  /\ res = 0
  /\ out = NoResponse
  /\ seen = NoResponse
  /\ slice = initialState

NextAlerts == \E u \in Users : GetDashboardAlerts(u)

SpecAlerts == InitAlerts /\ [][NextAlerts]_vars

\* a store with a sale and an expense in it and no product yet
InitReads ==
  /\ products = <<>>
  /\ sales \in Stores({DashSale}, MaxSales)
  /\ applied = [i \in DOMAIN sales |-> NoEffect]
  /\ expenses \in Stores({DashExpense}, MaxRecords - 1)
  /\ reqs = [r \in Reqs |-> Idle]
  /\ res = 0
  /\ out = NoResponse
  /\ seen = NoResponse
  /\ slice = initialState

\* the two dashboard routes between product writes
NextReads ==
  \/ \E u \in Users, q \in 0..MaxQty, st \in ProductStatuses :
       PostInventory(u, q, DefaultRestockThreshold, st)
  \/ \E u \in Users, id \in ProductIds : DeleteInventory(u, id)
  \/ \E u \in Users : GetDashboardAlerts(u)
  \/ \E u \in Users : GetDashboard(u, "none", "none", DashNow, "none")

SpecReads == InitReads /\ [][NextReads]_vars

\* requests to POST /api/inventory that can be in progress together
LimitReqs == 1..(MaxSales + 1)

\* the newest product ids of a store at the free-tier limit
LimitIds == (FreeLimit - 1)..(FreeLimit + MaxProducts)

\* a free-tier account one product below its limit
InitLimit ==
  /\ products = [i \in 1..(FreeLimit - 1) |->
                   NewProduct("u1", 2, DefaultRestockThreshold, "active")]
  /\ sales = <<>>
  /\ applied = <<>>
  /\ expenses = <<>>
  /\ reqs = [r \in LimitReqs |-> Idle]
  /\ res = 0
  /\ out = NoResponse
  /\ seen = NoResponse
  /\ slice = initialState

\* product creations, updates and archivals, interleaved
NextLimit ==
  \/ \E r \in LimitReqs, u \in Users, q \in {0, MaxQty} : PostInventoryLimit(r, u, q)
  \/ \E r \in LimitReqs : PostInventoryCreate(r)
  \/ \E u \in Users, id \in LimitIds, body \in ArchiveBodies : PutInventory(u, id, body)
  \/ \E u \in Users, id \in LimitIds : DeleteInventory(u, id)

SpecLimit == InitLimit /\ [][NextLimit]_vars

\* dashboard requests during which a query may reject
NextFail ==
  \E u \in Users, p \in {"week", "day"}, failed \in Failures :
    GetDashboard(u, p, "none", DashNow, failed)

\* a store of like sales and expenses
InitFail ==
  /\ products = DashProducts
  /\ sales \in Stores({DashSale}, MaxRecords)
  /\ applied = [i \in DOMAIN sales |-> NoEffect]
  /\ expenses \in Stores({DashExpense}, MaxRecords)
  /\ reqs = [r \in Reqs |-> Idle]
  /\ res = 0
  /\ out = NoResponse
  /\ seen = NoResponse
  /\ slice = initialState

SpecFail == InitFail /\ [][NextFail]_vars

\* a sale of product i, q pieces
TopSale(i, q) == [DashSale EXCEPT !.product = i, !.quantity = q]

\* quantity patterns over the products: two rotations of 1..3, and all equal
SoldPatterns == {[i \in 1..MaxSold |-> 1 + ((i * k) % 3)] : k \in 1..3}

\* further sales: a second one of a product, another user's, an older one
ExtraSales ==
  {TopSale(1, 2), [TopSale(2, 3) EXCEPT !.user = "u2"],
   [TopSale(3, 3) EXCEPT !.saleDate = DashNow - DaysPerMonth]}

\* a store with one sale for each of up to MaxSold products
InitTop ==
  /\ products = DashProducts
  /\ \E n \in 0..MaxSold, q \in SoldPatterns, extra \in Stores(ExtraSales, MaxRecords - 1) :
       sales = [i \in 1..n |-> TopSale(i, q[i])] \o extra
  /\ applied = [i \in DOMAIN sales |-> NoEffect]
  /\ expenses = <<>>
  /\ reqs = [r \in Reqs |-> Idle]
  /\ res = 0
  /\ out = NoResponse
  /\ seen = NoResponse
  /\ slice = initialState

\* the two routes that report top products
NextTop ==
  \/ \E u \in Users : GetDashboard(u, "none", "none", DashNow, "none")
  \/ \E u \in Users,
          range \in {[given |-> FALSE],
                     [given |-> TRUE, startDate |-> DashNow - 2, endDate |-> DashNow - 1]} :
       GetSalesAnalytics(u, range, DashNow)

SpecTop == InitTop /\ [][NextTop]_vars

\* a store holding one product, MaxQty pieces of it in stock
InitSales ==
  /\ products = <<ProductPreSave(NewProduct("u1", MaxQty, DefaultRestockThreshold, "active"))>>
  /\ sales = <<>>
  /\ applied = <<>>
  /\ expenses = <<>>
  /\ reqs = [r \in Reqs |-> Idle]
  /\ res = 0
  /\ out = NoResponse
  /\ seen = NoResponse
  /\ slice = initialState

\* the sale routes alone: no request writes a product's quantity directly
NextSales ==
  \/ \E u \in Users, body \in SaleBodies : PostSale(u, body)
  \/ \E u \in Users, id \in SaleIds, body \in SaleUpdates : PutSale(u, id, body)
  \/ \E u \in Users, id \in SaleIds : DeleteSale(u, id)

SpecSales == InitSales /\ [][NextSales]_vars

\* POST /api/sales requests that can be in progress together
RaceReqs == 1..(MaxSales + 1)

\* stock that covers every sale of the explored requests
RaceQty == (MaxSales + 1) * MaxQty

\* a store holding one product with RaceQty pieces in stock
InitRace ==
  /\ products = <<ProductPreSave(NewProduct("u1", RaceQty, DefaultRestockThreshold, "active"))>>
  /\ sales = <<>>
  /\ applied = <<>>
  /\ expenses = <<>>
  /\ reqs = [r \in RaceReqs |-> Idle]
  /\ res = 0
  /\ out = NoResponse
  /\ seen = NoResponse
  /\ slice = initialState

\* POST /api/sales requests interleaved at their awaits, every call succeeding
NextRace ==
  \/ \E r \in RaceReqs, u \in Users, body \in SaleBodies : PostSaleFind(r, u, body)
  \/ \E r \in RaceReqs : PostSaleInsert(r, "none")
  \/ \E r \in RaceReqs : PostSaleHook(r, "none")

SpecRace == InitRace /\ [][NextRace]_vars

\* the same requests, with calls that may reject
NextAbort ==
  \/ \E r \in RaceReqs, u \in Users, body \in SaleBodies : PostSaleFind(r, u, body)
  \/ \E r \in RaceReqs, failed \in {"none", "save"} : PostSaleInsert(r, failed)
  \/ \E r \in RaceReqs, failed \in {"none", "update", "populate"} : PostSaleHook(r, failed)

SpecAbort == InitRace /\ [][NextAbort]_vars

\* the mobile dashboard: refreshes, their completions and period changes
NextMobile ==
  \/ \E id \in FetchIds : RefreshDashboard(id)
  \/ \E id \in FetchIds : FetchDashboardDataFulfilled(id)
  \/ \E id \in FetchIds : FetchDashboardDataRejected(id)
  \/ \E id \in FetchIds, ok \in BOOLEAN : FetchDashboardAlertsDone(id, ok)
  \/ \E p \in {"week", "month"} : SetPeriod(p)

SpecMobile == Init /\ [][NextMobile]_vars

(* ------------------------------ claims --------------------------------- *)

\* the status a product with this stock should carry
DerivedStatus(q, thr) ==
  IF q = 0 THEN "out_of_stock" ELSE IF q <= thr THEN "low_stock" ELSE "active"

\* C1: every stored product's status is the one derived from its current
\* quantity and restockThreshold, whatever requests have been served.
C1_StatusIsDerived ==
  \A i \in DOMAIN products :
    products[i].status = DerivedStatus(products[i].quantity, products[i].restockThreshold)

\* sale s is new or was not completed, and is completed and not returned after the step
EntersCompleted(s) ==
  /\ s \in DOMAIN sales'
  /\ sales'[s].status = "completed"
  /\ ~sales'[s].isReturned
  /\ (s \in DOMAIN sales => sales[s].status # "completed")

\* C2: a step in which a sale enters completed with isReturned = false (POST
\* /sales or PUT /sales/:id) takes sale.quantity from the linked product's
\* inventory.quantity and adds it to analytics.totalSales.
C2_CompletionDecrements ==
  [][\A s \in SaleIds :
       (EntersCompleted(s) /\ sales'[s].product \in DOMAIN products) =>
         LET p == sales'[s].product
             q == sales'[s].quantity
         IN /\ products'[p].quantity = products[p].quantity - q
            /\ products'[p].totalSales = products[p].totalSales + q]_vars

\* the step is an update of sale s by its owner (PUT or DELETE /sales/:id)
UpdatesSale(s) ==
  \E u \in Users :
    /\ SaleFound(s, u)
    /\ \/ \E body \in SaleUpdates : PutSale(u, s, body)
       \/ DeleteSale(u, s)

\* C3: once a sale is cancelled or refunded, a further update of that sale
\* leaves the linked product's inventory.quantity and totalSales unchanged.
C3_RestockIdempotent ==
  [][\A s \in DOMAIN sales :
       (sales[s].status \in {"cancelled", "refunded"} /\ UpdatesSale(s)
          /\ sales[s].product \in DOMAIN products) =>
         LET p == sales[s].product
         IN /\ products'[p].quantity = products[p].quantity
            /\ products'[p].totalSales = products[p].totalSales]_vars

\* C4: a sale that has reached completed (not returned) has had its
\* quantity taken from the linked product exactly once.
C4_CompletionExactlyOnce ==
  \A s \in DOMAIN sales :
    (sales[s].status = "completed" /\ ~sales[s].isReturned) =>
      applied[s] = [product |-> sales[s].product, quantity |-> sales[s].quantity]

\* the step cancels or refunds sale s through PUT /sales/:id
CancelsSale(s) ==
  \E u \in Users, v \in {"cancelled", "refunded"} :
    /\ SaleFound(s, u)
    /\ PutSale(u, s, [f |-> "status", v |-> v])

\* C5: cancelling or refunding a completed sale whose completion took
\* stock gives the product back exactly what was taken, so that with no
\* other product write in between quantity and totalSales return to their
\* values before the completion.
C5_RoundTrip ==
  [][\A s \in DOMAIN sales :
       (sales[s].status = "completed" /\ applied[s] # NoEffect /\ CancelsSale(s)) =>
         LET p == applied[s].product
             q == applied[s].quantity
         IN /\ products'[p].quantity = products[p].quantity + q
            /\ products'[p].totalSales = products[p].totalSales - q]_vars

\* the alerts response of user u carries an alert of this type (for
\* low_stock: one whose data references product p)
HasAlert(ps, ss, u, type, p) ==
  \E k \in DOMAIN GetAlerts(ps, ss, u) :
    /\ GetAlerts(ps, ss, u)[k].type = type
    /\ (type = "low_stock" =>
          \E j \in DOMAIN GetAlerts(ps, ss, u)[k].data : GetAlerts(ps, ss, u)[k].data[j] = p)

\* C6: after a completed sale has reduced a (non-archived) product's quantity
\* to q, the product is low_stock with a low_stock alert referencing it when
\* 0 < q <= restockThreshold, and out_of_stock with an out_of_stock alert
\* when q = 0.
C6_SaleUpdatesStatusAndAlerts ==
  [][\A u \in Users, body \in SaleBodies :
       (PostSale(u, body) /\ res' = 201 /\ body.status = "completed"
          /\ ~products[body.product].isArchived) =>
         LET p == body.product
             q == products'[p].quantity
         IN /\ (0 < q /\ q <= products'[p].restockThreshold) =>
                 /\ products'[p].status = "low_stock"
                 /\ HasAlert(products', sales', u, "low_stock", p)
            /\ (q = 0) =>
                 /\ products'[p].status = "out_of_stock"
                 /\ HasAlert(products', sales', u, "out_of_stock", p)]_vars

\* C7: inventory.quantity of every product is never negative.
C7_QuantityNonNegative ==
  \A i \in DOMAIN products : products[i].quantity >= 0

\* C8: POST /sales answers 404 when the product does not exist or belongs
\* to another user, and 400 when the requested quantity exceeds the stock; in
\* both cases no sale is stored or left pending and the products are untouched.
C8_PostSaleRejects ==
  [][\A u \in Users, body \in SaleBodies :
       LET p == body.product
           missing == p \notin DOMAIN products
           foreign == ~missing /\ products[p].user # u
           short == ~missing /\ ~foreign /\ body.quantity > products[p].quantity
       IN (missing \/ foreign \/ short) =>
            \A r \in Reqs :
              PostSaleCheck(r, u, body) =>
                /\ (missing \/ foreign) => res' = 404
                /\ short => res' = 400
                /\ sales' = sales
                /\ products' = products
                /\ reqs' = reqs]_vars

\* a POST /sales request was just turned down for lack of stock
C8_Witness ==
  /\ res = 400
  /\ \E i \in DOMAIN products : products[i].quantity < MaxQty

\* C9: every stored sale references an existing product owned by the
\* sale's own user.
C9_SaleProductOwnedByUser ==
  \A s \in DOMAIN sales :
    /\ sales[s].product \in DOMAIN products
    /\ products[sales[s].product].user = sales[s].user

\* C10: a PUT /sales/:id that moves a sale to completed, cancelled or
\* refunded while its product is missing or owned by someone else is
\* answered with an error and leaves the stored status as it was.
C10_TransitionChecksProduct ==
  [][\A u \in Users, s \in DOMAIN sales, v \in {"completed", "cancelled", "refunded"} :
       (SaleFound(s, u) /\ sales[s].status # v /\ ~ProductFound(sales[s].product, u)
          /\ PutSale(u, s, [f |-> "status", v |-> v])) =>
         /\ res' >= 400
         /\ sales'[s].status = sales[s].status]_vars

\* position of a status on the chain pending -> ... -> completed
ChainRank(st) ==
  CASE st = "pending" -> 1
    [] st = "paid" -> 2
    [] st = "shipped" -> 3
    [] st = "delivered" -> 4
    [] st = "completed" -> 5
    [] OTHER -> 0

\* the status changes the chain permits, read generously: any move forward
\* on the chain, any chain state to cancelled, completed to refunded
AllowedTransition(a, b) ==
  \/ ChainRank(a) > 0 /\ ChainRank(b) > ChainRank(a)
  \/ ChainRank(a) > 0 /\ b = "cancelled"
  \/ a = "completed" /\ b = "refunded"

\* C11: a stored sale's status changes only forward on the chain pending ->
\* paid -> shipped -> delivered -> completed, to cancelled, or from completed
\* to refunded; never backwards and never out of cancelled or refunded.
C11_StatusFollowsChain ==
  [][\A s \in DOMAIN sales :
       sales'[s].status # sales[s].status =>
         AllowedTransition(sales[s].status, sales'[s].status)]_vars

\* C12: for every quantity >= 0 and restockThreshold >= 0, the document
\* saved by POST /inventory has status out_of_stock when quantity = 0,
\* low_stock when 0 < quantity <= threshold and active when quantity >
\* threshold; exactly one of the three cases applies, and the status sent
\* by the client does not survive.
C12_SaveDerivesStatus ==
  [][\A u \in Users, q \in 0..MaxQty, thr \in 0..MaxQty, st \in ProductStatuses :
       (PostInventory(u, q, thr, st) /\ res' = 201) =>
         LET d == products'[Len(products')]
             cases == {<<q = 0, "out_of_stock">>,
                       <<0 < q /\ q <= thr, "low_stock">>,
                       <<q > thr, "active">>}
         IN /\ d.quantity = q /\ d.restockThreshold = thr
            /\ Cardinality({c \in cases : c[1]}) = 1
            /\ \A c \in cases : c[1] => d.status = c[2]]_vars

\* a product was saved with its quantity equal to a positive threshold
\* and is stored as low_stock
C12_Witness ==
  /\ res = 201
  /\ \E i \in DOMAIN products :
       /\ products[i].quantity > 0
       /\ products[i].quantity = products[i].restockThreshold
       /\ products[i].restockThreshold # DefaultRestockThreshold
       /\ products[i].status = "low_stock"

\* the first day of the month m of now's year
FirstOfMonth(t, now, m) ==
  /\ GetFullYear(t) = GetFullYear(now)
  /\ GetMonth(t) = m
  /\ GetDate(t) = 1

\* C13: the resolved range of a dashboard response ends at now and starts
\* at now - 7 days for week, on the first day of now's month for month and
\* for an absent period, on the first day of month floor(m/3)*3 of now's
\* year for quarter and on 1 January of now's year for year; so start <=
\* now, and the quarter's start month s has s mod 3 = 0 and s <= m < s + 3.
C13_PeriodRange ==
  IsDashboard =>
    LET now == out.now
        start == out.data.period.startDate
        m == GetMonth(now)
        s == GetMonth(start)
    IN /\ out.data.period.endDate = now
       /\ start <= now
       /\ out.period = "week" => start = now - 7
       /\ out.period \in {"month", "none"} => FirstOfMonth(start, now, m)
       /\ out.period = "quarter" =>
            /\ FirstOfMonth(start, now, (m \div 3) * 3)
            /\ s % 3 = 0 /\ s <= m /\ m < s + 3
       /\ out.period = "year" => FirstOfMonth(start, now, 0)

\* a quarter request answered in the last month of a quarter block
C13_Witness ==
  /\ IsDashboard
  /\ out.period = "quarter"
  /\ GetMonth(out.now) % 3 = 2
  /\ out.data.period.startDate < out.now - DaysPerMonth

\* the user's non-archived sales of the requested currency
OwnSales(u, c) ==
  {i \in DOMAIN sales : sales[i].user = u /\ ~sales[i].isArchived /\ sales[i].currency = c}

\* the requested currency and the resolved start of the exchange in out
OutCurrency == CurrencyOf(out.user, out.currency)
OutStart == out.data.period.startDate

\* the sales dated in [from, to) among a set of sales
Dated(S, from, to) == {i \in S : from <= sales[i].saleDate /\ sales[i].saleDate < to}

\* C14: growth compares with the window [start - (now - start), start): it
\* is as long as the current window, ends where the current one begins, and
\* a sale dated exactly at start counts for the current period and not for
\* the previous one.
C14_PreviousWindow ==
  IsDashboard =>
    LET now == out.now
        start == OutStart
        own == OwnSales(out.user, OutCurrency)
        prevStart == start - (now - start)
        counted == PreviousSalesMatch(sales, out.user, start, now, OutCurrency)
        current == SalesMatch(sales, out.user, start, OutCurrency)
    IN /\ PreviousPeriodStart(start, now) = prevStart
       /\ start - prevStart = now - start
       /\ counted = Dated(own, prevStart, start)
       /\ \A i \in own : sales[i].saleDate = start => i \in current /\ i \notin counted
       /\ out.data.metrics.sales.growth
            = Growth(out.data.metrics.sales.totalSales,
                     Cardinality(Dated(own, prevStart, start)))

\* a week request over a store holding a sale dated at the start of the
\* week and a sale from the week before
C14_Witness ==
  /\ IsDashboard
  /\ out.period = "week"
  /\ \E i, j \in OwnSales(out.user, OutCurrency) :
       /\ sales[i].saleDate = OutStart
       /\ sales[j].saleDate < OutStart
       /\ sales[j].saleDate >= OutStart - WeekDays

\* the user's non-archived expenses of the requested currency
OwnExpenses(u, c) ==
  {i \in DOMAIN expenses :
     expenses[i].user = u /\ ~expenses[i].isArchived /\ expenses[i].currency = c}

\* C15: the sales and expense metrics of a dashboard response are computed
\* from exactly the user's non-archived records of the requested currency
\* dated in [start, end) with end = now; a record dated at or after end is
\* not counted.
C15_MetricsWindow ==
  IsDashboard =>
    LET S == Dated(OwnSales(out.user, OutCurrency), OutStart, out.now)
        E == {i \in OwnExpenses(out.user, OutCurrency) :
                OutStart <= expenses[i].date /\ expenses[i].date < out.now}
        m == out.data.metrics
    IN /\ m.sales.totalSales = Cardinality(S)
       /\ m.sales.totalRevenue = SumSet(SalePrices(sales), S)
       /\ m.sales.totalFees = SumSet(SaleFeeTotals(sales), S)
       /\ m.sales.averageOrderValue = (IF S = {} THEN 0 ELSE Avg(SalePrices(sales), S))
       /\ m.expenses.totalExpenses = SumSet(ExpenseAmounts(expenses), E)
       /\ m.expenses.expenseCount = Cardinality(E)

\* the sum of f[i] over the documents i <= n that belong to S
RECURSIVE Total(_, _, _)
Total(f, S, n) ==
  IF n = 0 THEN 0 ELSE (IF n \in S THEN f[n] ELSE 0) + Total(f, S, n - 1)

\* C16: over the matching sales and expenses, totalSales is the number of
\* sale records (whatever their quantities), totalRevenue the sum of
\* salePrice, totalFees the sum of platformFee + paymentFee + shippingFee +
\* other - promotionDiscount, netRevenue = totalRevenue - totalFees and
\* netProfit = netRevenue - totalExpenses; with no matching record all of
\* them are 0.
C16_Totals ==
  IsDashboard =>
    LET S == SalesMatch(sales, out.user, OutStart, OutCurrency)
        E == ExpensesMatch(expenses, out.user, OutStart, OutCurrency)
        m == out.data.metrics
        fee == [i \in DOMAIN sales |->
                  sales[i].fees.platformFee + sales[i].fees.paymentFee
                    + sales[i].fees.shippingFee + sales[i].fees.other
                    - sales[i].fees.promotionDiscount]
        price == [i \in DOMAIN sales |-> sales[i].salePrice]
        amount == [i \in DOMAIN expenses |-> expenses[i].amount]
    IN /\ m.sales.totalSales = Cardinality(S)
       /\ m.sales.totalRevenue = Total(price, S, Len(sales))
       /\ m.sales.totalFees = Total(fee, S, Len(sales))
       /\ m.sales.netRevenue = m.sales.totalRevenue - m.sales.totalFees
       /\ m.expenses.totalExpenses = Total(amount, E, Len(expenses))
       /\ m.profit.netProfit = m.sales.netRevenue - m.expenses.totalExpenses
       /\ (S = {} /\ E = {}) =>
            /\ m.sales.totalSales = 0 /\ m.sales.totalRevenue = 0
            /\ m.sales.totalFees = 0 /\ m.sales.netRevenue = 0
            /\ m.profit.netProfit = 0

\* a response over two matching sales whose quantities do not add up to
\* two, one of them discounted, and a matching expense
C16_Witness ==
  /\ IsDashboard
  /\ LET S == SalesMatch(sales, out.user, OutStart, OutCurrency) IN
       /\ Cardinality(S) = 2
       /\ Total(SaleQuantities(sales), S, Len(sales)) # 2
       /\ \E i \in S : sales[i].fees.promotionDiscount > 0
       /\ out.data.metrics.sales.totalSales = 2
  /\ ExpensesMatch(expenses, out.user, OutStart, OutCurrency) # {}

\* C17: a dashboard response with netRevenue <= 0 reports profitMargin 0,
\* a sale with netAmount <= 0 has profitMargin 0 (in the GET /sales list and
\* as the model's virtual), and no reported margin is the result of a
\* division by zero.
C17_MarginGuard ==
  /\ IsDashboard =>
       /\ out.data.metrics.sales.netRevenue <= 0 => out.data.metrics.profit.profitMargin = 0
       /\ out.data.metrics.profit.profitMargin \in Int
  /\ out.route = "sales" =>
       \A i \in DOMAIN out.data.sales :
         /\ out.data.sales[i].netAmount <= 0 => out.data.sales[i].profitMargin = 0
         /\ out.data.sales[i].profitMargin \in Int
  /\ \A i \in DOMAIN sales, populated \in BOOLEAN :
       /\ VirtualNetAmount(sales[i]) <= 0 =>
            VirtualProfitMargin(products, sales[i], populated) = 0
       /\ VirtualProfitMargin(products, sales[i], populated) \in Int

\* a dashboard response whose fees exceed its revenue
C17_Witness ==
  /\ IsDashboard
  /\ out.data.metrics.sales.totalSales > 0
  /\ out.data.metrics.sales.netRevenue < 0
  /\ out.data.metrics.profit.netProfit < 0

\* revenue and number of the sales the previous-period query selects
PreviousRevenue ==
  Total(SalePrices(sales),
        PreviousSalesMatch(sales, out.user, OutStart, out.now, OutCurrency), Len(sales))
PreviousCount ==
  Cardinality(PreviousSalesMatch(sales, out.user, OutStart, out.now, OutCurrency))

\* g (in hundredths of a percent) is exactly (current - previous) / previous * 100
\* for a positive previous value, else 100 for a positive current value, else 0
ExactGrowth(g, current, previous) ==
  IF previous > 0
    THEN g * previous = (current - previous) * 100 * 100
    ELSE g = (IF current > 0 THEN 100 * 100 ELSE 0)

\* the same, with the quotient rounded to the nearest hundredth
RoundedGrowth(g, current, previous) ==
  IF previous > 0
    THEN 2 * Abs(g * previous - (current - previous) * 100 * 100) <= previous
    ELSE g = (IF current > 0 THEN 100 * 100 ELSE 0)

\* C18 as stated: revenueGrowth is (current - previous) / previous * 100 of
\* the two periods' revenues when the previous revenue is positive, 100
\* when it is zero and the current revenue is positive, and 0 otherwise;
\* salesGrowth follows the same rule on the sale counts.
C18_GrowthExact ==
  IsDashboard =>
    /\ ExactGrowth(out.data.metrics.profit.revenueGrowth,
                   out.data.metrics.sales.totalRevenue, PreviousRevenue)
    /\ ExactGrowth(out.data.metrics.sales.growth,
                   out.data.metrics.sales.totalSales, PreviousCount)

\* C18 amended: both growth figures are that quotient rounded to two
\* decimals (the nearest hundredth of a percent); the zero-base rule is as
\* stated, and the two figures are computed independently.
C18_GrowthRounded ==
  IsDashboard =>
    /\ RoundedGrowth(out.data.metrics.profit.revenueGrowth,
                     out.data.metrics.sales.totalRevenue, PreviousRevenue)
    /\ RoundedGrowth(out.data.metrics.sales.growth,
                     out.data.metrics.sales.totalSales, PreviousCount)

\* a response whose revenue growth is not a whole number of hundredths
\* before rounding, next to a sales growth that is
C18_Witness ==
  /\ IsDashboard
  /\ PreviousRevenue > 0
  /\ ((out.data.metrics.sales.totalRevenue - PreviousRevenue) * 100 * 100) % PreviousRevenue # 0
  /\ out.data.metrics.sales.growth = 0
  /\ out.data.metrics.profit.revenueGrowth < 0

\* the user's non-archived records of the requested currency dated at or
\* after the start of the period
CurrencySales == {i \in OwnSales(out.user, OutCurrency) : sales[i].saleDate >= OutStart}
CurrencyExpenses ==
  {i \in OwnExpenses(out.user, OutCurrency) : expenses[i].date >= OutStart}

\* C19: every monetary figure of a dashboard response requested for
\* currency c (the metrics, topProducts.totalRevenue,
\* platformPerformance.revenue, salesTrend.revenue and
\* expenseBreakdown.amount) is a sum over records of currency c only.
C19_OneCurrency ==
  IsDashboard =>
    LET d == out.data
        price == [i \in DOMAIN sales |-> sales[i].salePrice]
        amount == [i \in DOMAIN expenses |-> expenses[i].amount]
    IN /\ d.metrics.sales.totalRevenue = Total(price, CurrencySales, Len(sales))
       /\ d.metrics.expenses.totalExpenses
            = Total(amount, CurrencyExpenses, Len(expenses))
       /\ \A k \in DOMAIN d.insights.topProducts :
            LET e == d.insights.topProducts[k] IN
            e.totalRevenue
              = Total(price, {i \in CurrencySales : sales[i].product = e._id}, Len(sales))
       /\ \A e \in d.charts.platformPerformance :
            e.revenue
              = Total(price, {i \in CurrencySales : sales[i].platform = e._id}, Len(sales))
       /\ \A e \in d.charts.salesTrend :
            e.revenue
              = Total(price, {i \in CurrencySales : DayOf(sales[i].saleDate) = e._id},
                      Len(sales))
       /\ \A e \in d.charts.expenseBreakdown :
            e.amount
              = Total(amount, {i \in CurrencyExpenses : expenses[i].category = e._id},
                      Len(expenses))

\* the user's non-archived products with status low_stock
LowStock(u) ==
  {i \in DOMAIN products :
     products[i].user = u /\ ~products[i].isArchived /\ products[i].status = "low_stock"}

\* C20: the low_stock alert is emitted iff the user has a non-archived
\* product with status low_stock; it has severity warning and
\* actionRequired true, the count of its message is the total number of
\* such products, and it carries at most 10 product references.
C20_LowStockAlert ==
  out.route = "alerts" =>
    LET alerts == out.data.alerts
        low == {k \in DOMAIN alerts : alerts[k].type = "low_stock"}
    IN /\ (low # {}) <=> (LowStock(out.user) # {})
       /\ Cardinality(low) <= 1
       /\ \A k \in low :
            /\ alerts[k].severity = "warning"
            /\ alerts[k].actionRequired
            /\ alerts[k].count = Cardinality(LowStock(out.user))
            /\ Len(alerts[k].data) <= AlertDataLimit
            /\ \A j \in DOMAIN alerts[k].data : alerts[k].data[j] \in LowStock(out.user)

\* C21: the alerts list contains exactly one subscription_limit alert, with
\* currentCount the user's number of non-archived products, limit 100 and
\* actionRequired false, iff the user is on the free tier and that number
\* is at least 80; a pro user never receives one.
C21_SubscriptionAlert ==
  out.route = "alerts" =>
    LET alerts == out.data.alerts
        sub == {k \in DOMAIN alerts : alerts[k].type = "subscription_limit"}
        n == Cardinality({i \in DOMAIN products :
                            products[i].user = out.user /\ ~products[i].isArchived})
    IN /\ Cardinality(sub) = (IF SubscriptionType(out.user) = "free" /\ n >= 80 THEN 1 ELSE 0)
       /\ \A k \in sub :
            /\ alerts[k].data.currentCount = n
            /\ alerts[k].data.limit = 100
            /\ ~alerts[k].actionRequired

\* a free-tier user with exactly 80 non-archived products, one more
\* archived, receives the alert
C21_Witness ==
  /\ out.route = "alerts"
  /\ SubscriptionType(out.user) = "free"
  /\ Cardinality({i \in DOMAIN products : products[i].user = out.user}) = 81
  /\ \E k \in DOMAIN out.data.alerts :
       /\ out.data.alerts[k].type = "subscription_limit"
       /\ out.data.alerts[k].data.currentCount = 80

\* the condition of each alert rule on the store, for user u
RuleHolds(type, u) ==
  LET own == {i \in DOMAIN products : products[i].user = u /\ ~products[i].isArchived}
  IN CASE type = "low_stock" -> \E i \in own : products[i].status = "low_stock"
       [] type = "out_of_stock" -> \E i \in own : products[i].status = "out_of_stock"
       [] type = "subscription_limit" ->
            SubscriptionType(u) = "free" /\ Cardinality(own) >= 80
       [] type = "pending_sales" ->
            \E i \in DOMAIN sales : /\ sales[i].user = u /\ ~sales[i].isArchived
                                     /\ sales[i].status \in {"pending", "paid"}

\* the alert types in their fixed order
AlertOrder == <<"low_stock", "out_of_stock", "subscription_limit", "pending_sales">>

\* C22: the alerts response holds at most one alert of each type, the types
\* present are exactly the rules whose condition holds (no rule suppresses
\* another), in the order low_stock, out_of_stock, subscription_limit,
\* pending_sales, and count is the length of the list.
C22_AlertRules ==
  out.route = "alerts" =>
    LET alerts == out.data.alerts
    IN /\ [k \in DOMAIN alerts |-> alerts[k].type]
            = SelectSeq(AlertOrder, LAMBDA t : RuleHolds(t, out.user))
       /\ out.data.count = Len(alerts)

\* a response in which all four rules fire, the pending-sales rule for a
\* paid sale
C22_Witness ==
  /\ out.route = "alerts"
  /\ Len(out.data.alerts) = 4
  /\ \A i \in DOMAIN sales : sales[i].status = "paid"

C24_FreeLimit ==
  \A u \in Users :
    SubscriptionType(u) = "free" =>
      Cardinality({i \in DOMAIN products :
                     products[i].user = u /\ ~products[i].isArchived}) <= 100

\* C25: if any one of the dashboard's queries fails, GET /dashboard returns
\* an error response with no metrics, charts or insights in it; a response
\* with success = true is produced only when every query has succeeded.
C25_FailFast ==
  out.route = "dashboard" =>
    /\ out.failed # "none" => ~out.success /\ "data" \notin DOMAIN out /\ res >= 400
    /\ out.success => out.failed = "none" /\ res = 200

\* the last of the queries rejects, over a store with sales and expenses,
\* and the response is the 500 of the catch block
C25_Witness ==
  /\ out.route = "dashboard"
  /\ out.failed = Queries[Len(Queries)]
  /\ res = 500
  /\ Len(sales) > 0 /\ Len(expenses) > 0

\* the sales a top-products list is computed from: the user's non-archived
\* sales of the period of the response
TopMatching ==
  IF out.route = "dashboard"
    THEN {i \in DOMAIN sales : /\ sales[i].user = out.user /\ ~sales[i].isArchived
                               /\ sales[i].saleDate >= out.data.period.startDate}
    ELSE {i \in DOMAIN sales : /\ sales[i].user = out.user /\ ~sales[i].isArchived
                               /\ sales[i].saleDate >= out.data.period.startDate
                               /\ sales[i].saleDate <= out.data.period.endDate}

\* the top-products list of the response and its limit
TopList == IF out.route = "dashboard" THEN out.data.insights.topProducts
           ELSE out.data.topProducts
TopLimit == IF out.route = "dashboard" THEN 5 ELSE 10

\* total quantity sold of product p over the matching sales
SoldOf(p) ==
  Total([i \in DOMAIN sales |-> sales[i].quantity],
        {i \in TopMatching : sales[i].product = p}, Len(sales))

\* C26: the top-products list groups the matching sales by product with
\* totalSold = sum of quantity and totalRevenue = sum of salePrice, is
\* sorted by totalSold in descending order, and has at most 5 entries on the
\* dashboard and at most 10 in the sales analytics summary; no product
\* outside the list has a strictly larger totalSold than a product in it.
C26_TopProducts ==
  (out.route \in {"dashboard", "analytics"} /\ out.success) =>
    LET L == TopList
        sold == {sales[i].product : i \in TopMatching}
        listed == {L[k]._id : k \in DOMAIN L}
    IN /\ Len(L) <= TopLimit
       /\ listed \subseteq sold
       /\ Cardinality(listed) = Len(L)
       /\ Len(L) < TopLimit => listed = sold
       /\ \A k \in DOMAIN L :
            /\ L[k].totalSold = SoldOf(L[k]._id)
            /\ L[k].totalRevenue
                 = Total([i \in DOMAIN sales |-> sales[i].salePrice],
                         {i \in TopMatching : sales[i].product = L[k]._id}, Len(sales))
       /\ \A j, k \in DOMAIN L : j < k => L[j].totalSold >= L[k].totalSold
       /\ \A p \in sold \ listed : \A k \in DOMAIN L : SoldOf(p) <= L[k].totalSold

\* an analytics summary that lists ten of eleven products sold, in more
\* than one quantity, one of them in two sales
C26_Witness ==
  /\ out.route = "analytics"
  /\ Len(out.data.topProducts) = 10
  /\ Cardinality({sales[i].product : i \in TopMatching}) = 11
  /\ out.data.topProducts[1].totalSold > out.data.topProducts[10].totalSold
  /\ \E k \in DOMAIN out.data.topProducts :
       Cardinality({i \in TopMatching : sales[i].product = out.data.topProducts[k]._id}) = 2

\* C27: absent direct edits of a product's quantity, inventory.quantity
\* never exceeds the product's initial quantity and analytics.totalSales
\* never drops below 0 (a restock only gives back what a completion took).
C27_NoInflation ==
  \A p \in DOMAIN products :
    /\ products[p].quantity <= MaxQty
    /\ products[p].totalSales >= 0

\* the quantity the sales whose request has been answered took from stock
TakenBy(S) ==
  Total([i \in DOMAIN sales |-> IF sales[i].status = "completed" THEN sales[i].quantity ELSE 0],
        S, Len(sales))

\* the sales whose POST request is still between its insert and its answer
InHook == {reqs[r].sale : r \in {x \in DOMAIN reqs : reqs[x] # Idle}} \ {0}

\* C28: when completed sales against the same product are created
\* concurrently, every decrement takes effect in every interleaving: the
\* quantity is the initial quantity minus the quantities of the completed
\* sales whose request has run its hook (no lost update on the counter).
C28_NoLostUpdate ==
  products[1].quantity = RaceQty - TakenBy(DOMAIN sales \ InHook)

\* two completed sales were inserted one after the other and the hook of
\* the second has run before the hook of the first
C28_Witness ==
  /\ Len(sales) >= 2
  /\ sales[1].status = "completed" /\ sales[2].status = "completed"
  /\ 1 \in InHook
  /\ applied[2] # NoEffect
  /\ products[1].quantity = RaceQty - sales[2].quantity

\* C29: a POST /sales request that returns an error response leaves the
\* store unchanged: no sale document of the request is persisted and no
\* product's inventory is changed, also when the product update that
\* follows the sale write fails.
C29_ErrorLeavesStore ==
  [][\A r \in DOMAIN reqs :
       (reqs[r] # Idle /\ reqs'[r] = Idle /\ res' >= 400) =>
         /\ reqs[r].sale \notin DOMAIN sales'
         /\ products' = products]_vars

\* C30: in the mobile dashboard slice isLoading is true whenever at least
\* one fetchDashboardData request is still in flight, also when two
\* refreshes overlap, and false once every dispatched request has been
\* fulfilled or rejected.
C30_LoadingFlag ==
  slice.isLoading <=> (\E id \in FetchIds : slice.data[id] # "none")

====
